---- MODULE Spec2Model ----
(***************************************************************************)
(* Model of jay.py, the Jay-to-Rust compiler prototype.                    *)
(*                                                                         *)
(* Python strings are modelled as sequences of one-character strings, so   *)
(* that split, strip, startswith, replace and the regular expression       *)
(* \w+\(.*\) are computed character by character as the interpreter does.  *)
(* Python's 0-based indices are shifted by one: lines[i] of the source is  *)
(* lines[i] here with i counted from 1.                                    *)
(***************************************************************************)
EXTENDS Integers, Sequences, FiniteSets, TLC

VARIABLES
    pc,          \* position of the running program
    jay_code,    \* the source text, as the sequence jay_code.splitlines()
    lines,       \* parse_and_compile_jay: non-blank stripped lines
    func_table,  \* build_function_table: name -> [params, ret_type]
    bft_i,       \* build_function_table: its line counter i
    i,           \* parse_and_compile_jay: its line counter i
    func_lines,  \* lines of the function being compiled (compile_jay_func: lines)
    name,        \* compile_jay_func: name
    params,      \* compile_jay_func: params
    ret_type,    \* compile_jay_func: ret_type
    j,           \* compile_jay_func: index in func_lines of the next body line
    body,        \* compile_jay_func: body
    vname,       \* compile_jay_func: local vname (Unbound until first assigned)
    vtype,       \* compile_jay_func: local vtype
    right,       \* compile_jay_func: local right
    stack,       \* ScopeStack.stack
    rust_fns,    \* parse_and_compile_jay: rust_fns
    rust_code,   \* __main__: rust_code
    log,         \* external effects of __main__ in order (files, cargo, messages)
    exc,         \* the uncaught exception that ended the program, or NoExc
    saved,       \* history: the stack as it was at each enter_scope still open
    before,      \* history: the stack at the enter_scope matching the last exit_scope
    lastOp       \* history: the last ScopeStack operation, with its result

vars == <<pc, jay_code, lines, func_table, bft_i, i, func_lines, name, params,
          ret_type, j, body, vname, vtype, right, stack, rust_fns, rust_code,
          log, exc, saved, before, lastOp>>

(***************************************************************************)
(* Bounds of the model.                                                    *)
(***************************************************************************)
MaxBlocks == 2      \* function blocks per source text
MaxDepth == 3       \* frames on the ScopeStack when driven through its API

(***************************************************************************)
(* Python values that are not strings.                                     *)
(***************************************************************************)
None == <<"None">>          \* Python None (no string is a 1-tuple of a 4-character string)
Unbound == <<"unbound">>    \* a local name not yet assigned
NoExc == "none"

\* str(v) as an f-string formats it
PyStr(v) == IF v = None THEN <<"N","o","n","e">> (* "None" *) ELSE v

(***************************************************************************)
(* Python string operations.                                               *)
(***************************************************************************)
Whitespace == {" ", "\t", "\n", "\r", "\f"}

LowerCase == <<"a","b","c","d","e","f","g","h","i","j","k","l","m","n","o","p","q","r","s","t","u","v","w","x","y","z">> (* "abcdefghijklmnopqrstuvwxyz" *)
UpperCase == <<"A","B","C","D","E","F","G","H","I","J","K","L","M","N","O","P","Q","R","S","T","U","V","W","X","Y","Z">> (* "ABCDEFGHIJKLMNOPQRSTUVWXYZ" *)
Digits == <<"0","1","2","3","4","5","6","7","8","9">> (* "0123456789" *)

\* the characters the regular expression class \w matches
WordChars == {LowerCase[k] : k \in 1..26} \cup {UpperCase[k] : k \in 1..26}
             \cup {Digits[k] : k \in 1..10} \cup {"_"}

MinOf(S) == CHOOSE m \in S : \A n \in S : m <= n

Last(s) == s[Len(s)]

Range(s) == {s[k] : k \in 1..Len(s)}

Front(s) == SubSeq(s, 1, Len(s) - 1)

\* s[k:] with k counted from 1
From(s, k) == SubSeq(s, k, Len(s))

\* s.startswith(p)
StartsWith(s, p) == Len(s) >= Len(p) /\ SubSeq(s, 1, Len(p)) = p

\* s.find(p) + 1: the first position where p occurs in s, 0 when it does not
Find(s, p) ==
    LET occ == {k \in 1..(Len(s) - Len(p) + 1) : SubSeq(s, k, k + Len(p) - 1) = p}
    IN IF occ = {} THEN 0 ELSE MinOf(occ)

\* p in s
Contains(s, p) == Find(s, p) # 0

RECURSIVE LStrip(_)
LStrip(s) == IF s # <<>> /\ Head(s) \in Whitespace THEN LStrip(Tail(s)) ELSE s

RECURSIVE RStrip(_)
RStrip(s) == IF s # <<>> /\ Last(s) \in Whitespace THEN RStrip(Front(s)) ELSE s

\* s.strip()
Strip(s) == RStrip(LStrip(s))

\* s.rstrip(c) for a single character c
RECURSIVE RStripChar(_, _)
RStripChar(s, c) == IF s # <<>> /\ Last(s) = c THEN RStripChar(Front(s), c) ELSE s

\* s.split(sep)
RECURSIVE Split(_, _)
Split(s, sep) ==
    LET k == Find(s, sep)
    IN IF k = 0 THEN <<s>>
       ELSE <<SubSeq(s, 1, k - 1)>> \o Split(From(s, k + Len(sep)), sep)

\* s.split(sep, 1)
Split1(s, sep) ==
    LET k == Find(s, sep)
    IN IF k = 0 THEN <<s>> ELSE <<SubSeq(s, 1, k - 1), From(s, k + Len(sep))>>

\* s.split(): on runs of whitespace, without empty pieces
RECURSIVE SplitWS(_)
SplitWS(s) ==
    LET t == LStrip(s)
        ws == {k \in 1..Len(t) : t[k] \in Whitespace}
        e == IF ws = {} THEN Len(t) + 1 ELSE MinOf(ws)
    IN IF t = <<>> THEN <<>>
       ELSE <<SubSeq(t, 1, e - 1)>> \o SplitWS(From(t, e))

\* s.replace(old, new)
RECURSIVE Replace(_, _, _)
Replace(s, old, new) ==
    LET k == Find(s, old)
    IN IF k = 0 THEN s
       ELSE SubSeq(s, 1, k - 1) \o new \o Replace(From(s, k + Len(old)), old, new)

\* sep.join(parts)
RECURSIVE Join(_, _)
Join(parts, sep) ==
    IF parts = <<>> THEN <<>>
    ELSE IF Len(parts) = 1 THEN parts[1]
    ELSE parts[1] \o sep \o Join(Tail(parts), sep)

\* s.lower()
Lower(s) ==
    [k \in 1..Len(s) |->
        IF \E u \in 1..26 : UpperCase[u] = s[k]
        THEN LowerCase[CHOOSE u \in 1..26 : UpperCase[u] = s[k]]
        ELSE s[k]]

\* s * n
RECURSIVE Times(_, _)
Times(s, n) == IF n = 0 THEN <<>> ELSE s \o Times(s, n - 1)

\* re.match(r"\w+\(.*\)", s): word characters, then "(", then a ")" further on
CallShape(s) ==
    \E k \in 2..Len(s) :
        /\ s[k] = "("
        /\ \A m \in 1..(k - 1) : s[m] \in WordChars
        /\ \E m \in (k + 1)..Len(s) : s[m] = ")"

\* a dict with key k set to v
Put(d, k, v) == [x \in DOMAIN d \cup {k} |-> IF x = k THEN v ELSE d[x]]

EmptyDict == [x \in {} |-> <<>>]

(***************************************************************************)
(* class ScopeStack                                                        *)
(***************************************************************************)
\* __init__
ScopeStack == <<EmptyDict>>

enter_scope(s) == Append(s, EmptyDict)

\* list.pop(): raises IndexError on the empty list
exit_scope_raises(s) == s = <<>>

exit_scope_keeps_frame(s) == s

exit_scope(s) == Front(s)

\* self.stack[-1]: raises IndexError on the empty list
declare_var_raises(s) == s = <<>>

declare_var_outermost(s, n, t) == [s EXCEPT ![1] = Put(s[1], n, t)]

declare_var(s, n, t) == [s EXCEPT ![Len(s)] = Put(s[Len(s)], n, t)]

RECURSIVE lookup_var(_, _)
lookup_var(s, n) ==
    IF s = <<>> THEN None
    ELSE IF n \in DOMAIN Last(s) THEN Last(s)[n]
    ELSE lookup_var(Front(s), n)

(***************************************************************************)
(* jay_type_to_rust                                                        *)
(***************************************************************************)
jay_type_to_rust(jay_type) ==
    LET t == Lower(jay_type)
    IN IF t = <<"i","n","t">> (* "int" *) THEN <<"i","3","2">> (* "i32" *)
       ELSE IF t = <<"s","t","r","i","n","g">> (* "string" *) THEN <<"S","t","r","i","n","g">> (* "String" *)
       ELSE IF t = <<"b","o","o","l">> (* "bool" *) THEN <<"b","o","o","l">> (* "bool" *)
       ELSE <<"S","t","r","i","n","g">> (* "String" *)

(***************************************************************************)
(* extract_func_signature                                                  *)
(***************************************************************************)
\* the text between the first "(" and the next ")"
params_str(header) == Split1(Split1(header, <<"(">>)[2], <<")">>)[1]

\* the exception extract_func_signature raises on header, NoExc when it returns
extract_raises(header) ==
    IF Len(SplitWS(header)) < 2 THEN "IndexError"
    ELSE IF ~Contains(header, <<"(">>) THEN "IndexError"
    ELSE IF Strip(params_str(header)) # <<>>
            /\ \E p \in Range(Split(params_str(header), <<",">>)) :
                   Len(Split(Strip(p), <<":">>)) # 2
         THEN "ValueError"
    ELSE NoExc

func_name(header) == Split(SplitWS(header)[2], <<"(">>)[1]

func_params(header) ==
    LET ps == Split(params_str(header), <<",">>)
    IN IF Strip(params_str(header)) = <<>> THEN <<>>
       ELSE [k \in 1..Len(ps) |->
                LET pp == Split(Strip(ps[k]), <<":">>)
                IN <<Strip(pp[1]), jay_type_to_rust(Strip(pp[2]))>>]

func_ret_type(header) ==
    IF Contains(header, <<"-",">">> (* "->" *))
    THEN jay_type_to_rust(Strip(Split(Split(header, <<"-",">">> (* "->" *))[2], <<"{">>)[1]))
    ELSE <<"(",")">> (* "()" *)

(***************************************************************************)
(* build_function_table                                                    *)
(***************************************************************************)
\* the inner while of build_function_table, started on the header at k: the
\* index of the first line from k on that starts with "}", len(lines) if none
bft_skip_to_end(ls, k) == Len(ls) + 1

bft_skip(ls, k) ==
    LET stops == {m \in k..Len(ls) : StartsWith(ls[m], <<"}">>)}
    IN IF stops = {} THEN Len(ls) + 1 ELSE MinOf(stops)

(***************************************************************************)
(* compile_jay_func: one iteration of the loop over the body lines.  st    *)
(* holds the locals the loop reads and writes and the shared ScopeStack.   *)
(***************************************************************************)
decl_line(st) ==
    <<" "," "," "," ","l","e","t"," ">> (* "    let " *) \o st.vname \o <<":"," ">> (* ": " *) \o PyStr(st.vtype) \o <<" ","="," ">> (* " = " *) \o st.right \o <<";">>

\* lines 158-179: classify the right-hand side and emit the declaration
emit_let(st) ==
    IF st.right = Unbound THEN [st EXCEPT !.exc = "UnboundLocalError"]
    ELSE IF CallShape(st.right) THEN [st EXCEPT !.body = Append(@, decl_line(st))]
    ELSE IF st.vtype = <<"S","t","r","i","n","g">> (* "String" *)
    THEN LET quoted == IF ~StartsWith(st.right, <<"\"">>)
                       THEN <<"\"">> \o st.right \o <<"\"">>
                       ELSE st.right
             pieces == Split(quoted, <<"+">>)
             operands == [k \in 1..Len(pieces) |-> Strip(pieces[k])]
             fmt == <<"\"">> \o Times(<<"{","}">> (* "{}" *), Len(operands)) \o <<"\"">>
             args == Join(operands, <<","," ">> (* ", " *))
             r == IF Contains(quoted, <<"+">>)
                  THEN <<"f","o","r","m","a","t","!","(">> (* "format!(" *) \o fmt \o <<","," ">> (* ", " *) \o args \o <<")">>
                  ELSE quoted \o <<".","t","o","_","s","t","r","i","n","g","(",")">> (* ".to_string()" *)
             s1 == [st EXCEPT !.right = r]
         IN [s1 EXCEPT !.body = Append(@, decl_line(s1))]
    ELSE [st EXCEPT !.body = Append(@, decl_line(st))]

\* lines 145-179
let_stmt(st, line) ==
    LET rest == Split1(line, <<"l","e","t"," ">> (* "let " *))[2]
        eq == Split(rest, <<"=">>)
        lr == Split(Strip(eq[1]), <<":">>)
    IN IF Contains(rest, <<":">>)
       THEN IF Len(eq) # 2 THEN [st EXCEPT !.exc = "ValueError"]
            ELSE IF Len(lr) # 2
            THEN [st EXCEPT !.right = eq[2], !.exc = "ValueError"]
            ELSE emit_let([st EXCEPT
                     !.vname = Strip(lr[1]),
                     !.vtype = jay_type_to_rust(Strip(lr[2])),
                     !.stack = declare_var(@, Strip(lr[1]),
                                           jay_type_to_rust(Strip(lr[2]))),
                     !.right = Strip(eq[2])])
       ELSE emit_let(st)

\* lines 182-184
return_stmt(st, line) ==
    [st EXCEPT !.body = Append(@, <<" "," "," "," ","r","e","t","u","r","n"," ">> (* "    return " *) \o Strip(From(line, 8)) \o <<";">>)]

print_stmt_jay_type(st, line) ==
    LET inner == SubSeq(line, 7, Len(line) - 1)
        t == lookup_var(st.stack, inner)
    IN [st EXCEPT
           !.vtype = t,
           !.body = Append(@, IF t = <<"s","t","r","i","n","g">> (* "string" *)
                              THEN <<" "," "," "," ","p","r","i","n","t","l","n","!","(","\"","{","}","\"",","," ">> (* "    println!("{}", " *) \o inner \o <<".","a","s","_","s","t","r","(",")",")",";">> (* ".as_str());" *)
                              ELSE <<" "," "," "," ","p","r","i","n","t","l","n","!","(","\"","{","}","\"",","," ">> (* "    println!("{}", " *) \o inner \o <<")",";">> (* ");" *))]

\* lines 187-194
print_stmt(st, line) ==
    LET inner == SubSeq(line, 7, Len(line) - 1)
        t == lookup_var(st.stack, inner)
    IN [st EXCEPT
           !.vtype = t,
           !.body = Append(@, IF t = <<"S","t","r","i","n","g">> (* "String" *)
                              THEN <<" "," "," "," ","p","r","i","n","t","l","n","!","(","\"","{","}","\"",","," ">> (* "    println!("{}", " *) \o inner \o <<".","a","s","_","s","t","r","(",")",")",";">> (* ".as_str());" *)
                              ELSE <<" "," "," "," ","p","r","i","n","t","l","n","!","(","\"","{","}","\"",","," ">> (* "    println!("{}", " *) \o inner \o <<")",";">> (* ");" *))]

\* lines 197-198
call_stmt(st, line) == [st EXCEPT !.body = Append(@, <<" "," "," "," ">> (* "    " *) \o line \o <<";">>)]

\* line 143
normalise(raw) == Strip(RStripChar(raw, ";"))

translate_line_catch_all(st, raw) ==
    LET line == normalise(raw)
    IN IF StartsWith(line, <<"l","e","t"," ">> (* "let " *)) THEN let_stmt(st, line)
       ELSE IF StartsWith(line, <<"r","e","t","u","r","n"," ">> (* "return " *)) THEN return_stmt(st, line)
       ELSE IF StartsWith(line, <<"p","r","i","n","t","(">> (* "print(" *)) THEN print_stmt(st, line)
       ELSE call_stmt(st, line)

\* lines 142-198, one body line
translate_line(st, raw) ==
    LET line == normalise(raw)
    IN IF StartsWith(line, <<"l","e","t"," ">> (* "let " *)) THEN let_stmt(st, line)
       ELSE IF StartsWith(line, <<"r","e","t","u","r","n"," ">> (* "return " *)) THEN return_stmt(st, line)
       ELSE IF StartsWith(line, <<"p","r","i","n","t","(">> (* "print(" *)) THEN print_stmt(st, line)
       ELSE IF CallShape(line) THEN call_stmt(st, line)
       ELSE st

\* the loop of lines 142-198 over the body lines ls, stopped by an exception
RECURSIVE translate_lines(_, _)
translate_lines(st, ls) ==
    IF ls = <<>> \/ st.exc # NoExc THEN st
    ELSE translate_lines(translate_line(st, Head(ls)), Tail(ls))

\* lines 203-205
function_text(nm, ps, rt, b) ==
    LET params_rust == Join([k \in 1..Len(ps) |-> ps[k][1] \o <<":"," ">> (* ": " *) \o ps[k][2]], <<","," ">> (* ", " *))
    IN <<"p","u","b"," ","f","n"," ">> (* "pub fn " *) \o nm \o <<"(">> \o params_rust \o <<")"," ","-",">"," ">> (* ") -> " *) \o rt \o <<" ","{","\n">> (* " {\n" *)
       \o Join(b, <<"\n">>) \o <<"\n","}">> (* "\n}" *)

(***************************************************************************)
(* parse_and_compile_jay                                                   *)
(***************************************************************************)
\* line 219
strip_nonblank(raw) ==
    LET stripped == [k \in 1..Len(raw) |-> Strip(raw[k])]
    IN SelectSeq(stripped, LAMBDA l : l # <<>>)

\* lines 233-235, entered with i just past the header at k: the index where the
\* inner while stops
func_end(ls, k) ==
    LET stops == {m \in (k + 1)..Len(ls) : StartsWith(ls[m], <<"}">>)}
    IN IF stops = {} THEN Len(ls) + 1 ELSE MinOf(stops)

\* lines 229-237
collect_func_lines(ls, k) == SubSeq(ls, k, func_end(ls, k) - 1) \o <<<<"}">>>>

emit_always_renamed(nm, text) == Replace(text, <<"p","u","b"," ","f","n"," ","m","a","i","n">> (* "pub fn main" *), <<"f","n"," ","m","a","i","n">> (* "fn main" *))

\* lines 242-249
emit(nm, text) ==
    IF nm = <<"m","a","i","n">> (* "main" *) THEN Replace(text, <<"p","u","b"," ","f","n"," ","m","a","i","n">> (* "pub fn main" *), <<"f","n"," ","m","a","i","n">> (* "fn main" *)) ELSE text

(***************************************************************************)
(* Source texts: every concatenation of one to MaxBlocks of these blocks.  *)
(***************************************************************************)
Blocks == <<
    \* 1: typed int declaration and its print
    << <<"f","u","n","c"," ","m","a","i","n","(",")"," ","{">> (* "func main() {" *),
       <<" "," "," "," ","l","e","t"," ","x",":"," ","i","n","t"," ","="," ","5",";">> (* "    let x: int = 5;" *),
       <<" "," "," "," ","p","r","i","n","t","(","x",")",";">> (* "    print(x);" *),
       <<"}">> >>,
    \* 2: call of g, which may be declared later; a blank line; a standalone call
    << <<"f","u","n","c"," ","m","a","i","n","(",")"," ","{">> (* "func main() {" *),
       <<" "," "," "," ","l","e","t"," ","s",":"," ","s","t","r","i","n","g"," ","="," ","g","(",")",";">> (* "    let s: string = g();" *),
       <<>>,
       <<" "," "," "," ","p","r","i","n","t","(","s",")",";">> (* "    print(s);" *),
       <<" "," "," "," ","s","h","o","w","(","s",","," ","1",")",";">> (* "    show(s, 1);" *),
       <<"}">> >>,
    \* 3: g returning string; an unquoted string right-hand side
    << <<"f","u","n","c"," ","g","(",")"," ","-",">"," ","s","t","r","i","n","g"," ","{">> (* "func g() -> string {" *),
       <<" "," "," "," ","l","e","t"," ","t",":"," ","s","t","r","i","n","g"," ","="," ","h","i",";">> (* "    let t: string = hi;" *),
       <<" "," "," "," ","r","e","t","u","r","n"," ","t",";">> (* "    return t;" *),
       <<"}">> >>,
    \* 4: a line outside any function, then g again, returning int
    << <<"u","s","e"," ","u","t","i","l",";">> (* "use util;" *),
       <<"f","u","n","c"," ","g","(",")"," ","-",">"," ","i","n","t"," ","{">> (* "func g() -> int {" *),
       <<" "," "," "," ","r","e","t","u","r","n"," ","1",";">> (* "    return 1;" *),
       <<"}">> >>,
    \* 5: parameters, a line of no statement shape, prints of a string, of an
    \*    int and of a name this function does not declare
    << <<"f","u","n","c"," ","s","h","o","w","(","s",":"," ","s","t","r","i","n","g",","," ","n",":"," ","i","n","t",")"," ","{">> (* "func show(s: string, n: int) {" *),
       <<" "," "," "," ","i","f"," ","n"," ",">"," ","0"," ","{">> (* "    if n > 0 {" *),
       <<" "," "," "," ","p","r","i","n","t","(","s",")",";">> (* "    print(s);" *),
       <<" "," "," "," ","p","r","i","n","t","(","n",")",";">> (* "    print(n);" *),
       <<" "," "," "," ","p","r","i","n","t","(","x",")",";">> (* "    print(x);" *),
       <<"}">> >>,
    \* 6: typed declaration whose expression holds further "=" characters
    << <<"f","u","n","c"," ","e","q","(","a",":"," ","i","n","t",","," ","b",":"," ","i","n","t",")"," ","-",">"," ","b","o","o","l"," ","{">> (* "func eq(a: int, b: int) -> bool {" *),
       <<" "," "," "," ","l","e","t"," ","c",":"," ","b","o","o","l"," ","="," ","a"," ","=","="," ","b",";">> (* "    let c: bool = a == b;" *),
       <<" "," "," "," ","r","e","t","u","r","n"," ","c",";">> (* "    return c;" *),
       <<"}">> >>,
    \* 7: declaration without a type as the first declaration of a function
    << <<"f","u","n","c"," ","u","(",")"," ","{">> (* "func u() {" *),
       <<" "," "," "," ","l","e","t"," ","y"," ","="," ","g","(",")",";">> (* "    let y = g();" *),
       <<" "," "," "," ","p","r","i","n","t","(","y",")",";">> (* "    print(y);" *),
       <<"}">> >>,
    \* 8: string concatenation, then a declaration without a type
    << <<"f","u","n","c"," ","m","a","i","n","2","(","n",":"," ","i","n","t",")"," ","{">> (* "func main2(n: int) {" *),
       <<" "," "," "," ","l","e","t"," ","a",":"," ","s","t","r","i","n","g"," ","="," ","\"","x","\""," ","+"," ","\"","y","\"",";">> (* "    let a: string = "x" + "y";" *),
       <<" "," "," "," ","l","e","t"," ","y"," ","="," ","g","(",")",";">> (* "    let y = g();" *),
       <<" "," "," "," ","p","r","i","n","t","(","y",")",";">> (* "    print(y);" *),
       <<"}">> >>,
    \* 9: header without parentheses
    << <<"f","u","n","c"," ","b","a","d"," ","{">> (* "func bad {" *),
       <<"}">> >>,
    \* 10: a declaration shadowing a parameter, a declaration without a type
    \*     after a print of an unknown name; no closing brace
    << <<"f","u","n","c"," ","t","a","i","l","(","x",":"," ","s","t","r","i","n","g",")"," ","-",">"," ","I","n","t"," ","{">> (* "func tail(x: string) -> Int {" *),
       <<" "," "," "," ","l","e","t"," ","x",":"," ","i","n","t"," ","="," ","2">> (* "    let x: int = 2" *),
       <<" "," "," "," ","p","r","i","n","t","(","x",")">> (* "    print(x)" *),
       <<" "," "," "," ","p","r","i","n","t","(","q",")">> (* "    print(q)" *),
       <<" "," "," "," ","l","e","t"," ","z"," ","="," ","3">> (* "    let z = 3" *) >>
>>

RECURSIVE concat_blocks(_)
concat_blocks(idx) ==
    IF idx = <<>> THEN <<>> ELSE Blocks[Head(idx)] \o concat_blocks(Tail(idx))

Programs ==
    {concat_blocks(idx) : idx \in UNION {[1..n -> 1..Len(Blocks)] : n \in 1..MaxBlocks}}

\* exit statuses of the cargo commands
ExitCodes == {0, 1}

\* names and types the ScopeStack is driven with through its API
Names == {<<"x">>, <<"y">>}
ScopeTypes == {<<"i","3","2">> (* "i32" *), <<"S","t","r","i","n","g">> (* "String" *)}

(***************************************************************************)
(* The program: __main__, parse_and_compile_jay, build_function_table,     *)
(* compile_jay_func, write_rust_file, write_cargo_toml, build_and_run.     *)
(***************************************************************************)
Init ==
    /\ pc = "start"
    /\ jay_code = <<>>
    /\ lines = <<>>
    /\ func_table = EmptyDict
    /\ bft_i = 0
    /\ i = 0
    /\ func_lines = <<>>
    /\ name = Unbound
    /\ params = <<>>
    /\ ret_type = Unbound
    /\ j = 0
    /\ body = <<>>
    /\ vname = Unbound
    /\ vtype = Unbound
    /\ right = Unbound
    /\ stack = Unbound
    /\ rust_fns = <<>>
    /\ rust_code = Unbound
    /\ log = <<>>
    /\ exc = NoExc
    /\ saved = <<>>
    /\ before = <<>>
    /\ lastOp = <<"none">>

\* lines 313-315: no argument
MainUsage ==
    /\ pc = "start"
    /\ log' = Append(log, "Usage: python jay_to_rust_functional.py input.jay")
    /\ pc' = "exit1"
    /\ UNCHANGED <<jay_code, lines, func_table, bft_i, i, func_lines, name, params,
                   ret_type, j, body, vname, vtype, right, stack, rust_fns,
                   rust_code, exc, saved, before, lastOp>>

\* lines 317-320
ReadSource(text) ==
    /\ pc = "start"
    /\ jay_code' = text
    /\ pc' = "parse"
    /\ UNCHANGED <<lines, func_table, bft_i, i, func_lines, name, params, ret_type,
                   j, body, vname, vtype, right, stack, rust_fns, rust_code, log,
                   exc, saved, before, lastOp>>

\* lines 219-220 and 103-105: split the lines, enter build_function_table
SplitLines ==
    /\ pc = "parse"
    /\ lines' = strip_nonblank(jay_code)
    /\ func_table' = EmptyDict
    /\ bft_i' = 1
    /\ pc' = "table"
    /\ UNCHANGED <<jay_code, i, func_lines, name, params, ret_type, j, body, vname,
                   vtype, right, stack, rust_fns, rust_code, log, exc, saved,
                   before, lastOp>>

\* lines 107-115: an iteration on a function header
BuildTableHeader ==
    /\ pc = "table"
    /\ bft_i <= Len(lines)
    /\ StartsWith(lines[bft_i], <<"f","u","n","c"," ">> (* "func " *))
    /\ extract_raises(lines[bft_i]) = NoExc
    /\ func_table' = Put(func_table, func_name(lines[bft_i]),
                         [params |-> func_params(lines[bft_i]),
                          ret_type |-> func_ret_type(lines[bft_i])])
    /\ bft_i' = bft_skip(lines, bft_i) + 1
    /\ UNCHANGED <<pc, jay_code, lines, i, func_lines, name, params, ret_type, j,
                   body, vname, vtype, right, stack, rust_fns, rust_code, log, exc,
                   saved, before, lastOp>>

\* line 110: extract_func_signature raises; nothing catches it
BuildTableRaises ==
    /\ pc = "table"
    /\ bft_i <= Len(lines)
    /\ StartsWith(lines[bft_i], <<"f","u","n","c"," ">> (* "func " *))
    /\ extract_raises(lines[bft_i]) # NoExc
    /\ exc' = extract_raises(lines[bft_i])
    /\ pc' = "crashed"
    /\ UNCHANGED <<jay_code, lines, func_table, bft_i, i, func_lines, name, params,
                   ret_type, j, body, vname, vtype, right, stack, rust_fns,
                   rust_code, log, saved, before, lastOp>>

\* lines 107-115: an iteration on any other line
BuildTableOther ==
    /\ pc = "table"
    /\ bft_i <= Len(lines)
    /\ ~StartsWith(lines[bft_i], <<"f","u","n","c"," ">> (* "func " *))
    /\ bft_i' = bft_i + 1
    /\ UNCHANGED <<pc, jay_code, lines, func_table, i, func_lines, name, params,
                   ret_type, j, body, vname, vtype, right, stack, rust_fns,
                   rust_code, log, exc, saved, before, lastOp>>

\* lines 117 and 221-224
BuildTableReturn ==
    /\ pc = "table"
    /\ bft_i > Len(lines)
    /\ i' = 1
    /\ rust_fns' = <<>>
    /\ stack' = ScopeStack
    /\ pc' = "scan"
    /\ UNCHANGED <<jay_code, lines, func_table, bft_i, func_lines, name, params,
                   ret_type, j, body, vname, vtype, right, rust_code, log, exc,
                   saved, before, lastOp>>

\* lines 226-228 and 251: a line outside any function
ScanOther ==
    /\ pc = "scan"
    /\ i <= Len(lines)
    /\ ~StartsWith(lines[i], <<"f","u","n","c"," ">> (* "func " *))
    /\ i' = i + 1
    /\ UNCHANGED <<pc, jay_code, lines, func_table, bft_i, func_lines, name, params,
                   ret_type, j, body, vname, vtype, right, stack, rust_fns,
                   rust_code, log, exc, saved, before, lastOp>>

RECURSIVE declare_params(_, _)
declare_params(s, ps) ==
    IF ps = <<>> THEN s
    ELSE declare_params(declare_var(s, Head(ps)[1], Head(ps)[2]), Tail(ps))

\* lines 228-239 and 133-140: collect the function's lines, call
\* compile_jay_func, which enters a scope and declares the parameters
FuncEnter ==
    /\ pc = "scan"
    /\ i <= Len(lines)
    /\ StartsWith(lines[i], <<"f","u","n","c"," ">> (* "func " *))
    /\ extract_raises(lines[i]) = NoExc
    /\ func_lines' = collect_func_lines(lines, i)
    /\ i' = func_end(lines, i)
    /\ name' = func_name(lines[i])
    /\ params' = func_params(lines[i])
    /\ ret_type' = func_ret_type(lines[i])
    /\ body' = <<>>
    /\ stack' = declare_params(enter_scope(stack), func_params(lines[i]))
    /\ vname' = Unbound
    /\ vtype' = Unbound
    /\ right' = Unbound
    /\ j' = 2
    /\ pc' = "body"
    /\ UNCHANGED <<jay_code, lines, func_table, bft_i, rust_fns, rust_code, log,
                   exc, saved, before, lastOp>>

\* the locals of compile_jay_func as translate_line takes them
locals ==
    [stack |-> stack, body |-> body, vname |-> vname, vtype |-> vtype,
     right |-> right, exc |-> NoExc]

\* lines 142-198: one body line; an exception ends the program
BodyLine ==
    /\ pc = "body"
    /\ j < Len(func_lines)
    /\ LET st == translate_line(locals, func_lines[j])
       IN /\ stack' = st.stack
          /\ body' = st.body
          /\ vname' = st.vname
          /\ vtype' = st.vtype
          /\ right' = st.right
          /\ exc' = st.exc
          /\ IF st.exc = NoExc
             THEN j' = j + 1 /\ pc' = "body"
             ELSE j' = j /\ pc' = "crashed"
    /\ UNCHANGED <<jay_code, lines, func_table, bft_i, i, func_lines, name, params,
                   ret_type, rust_fns, rust_code, log, saved, before, lastOp>>

\* lines 201-205 and 242-251
FuncReturn ==
    /\ pc = "body"
    /\ j = Len(func_lines)
    /\ stack' = exit_scope(stack)
    /\ rust_fns' = Append(rust_fns, emit(name, function_text(name, params, ret_type, body)))
    /\ i' = i + 1
    /\ pc' = "scan"
    /\ UNCHANGED <<jay_code, lines, func_table, bft_i, func_lines, name, params,
                   ret_type, j, body, vname, vtype, right, rust_code, log, exc,
                   saved, before, lastOp>>

\* lines 253 and 322
ParseReturn ==
    /\ pc = "scan"
    /\ i > Len(lines)
    /\ rust_code' = Join(rust_fns, <<"\n","\n">> (* "\n\n" *))
    /\ pc' = "write_rs"
    /\ UNCHANGED <<jay_code, lines, func_table, bft_i, i, func_lines, name, params,
                   ret_type, j, body, vname, vtype, right, stack, rust_fns, log,
                   exc, saved, before, lastOp>>

\* lines 256-271
write_rust_file ==
    /\ pc = "write_rs"
    /\ log' = log \o <<"write jay_out/src/main.rs", "Rust code written">>
    /\ pc' = "write_toml"
    /\ UNCHANGED <<jay_code, lines, func_table, bft_i, i, func_lines, name, params,
                   ret_type, j, body, vname, vtype, right, stack, rust_fns,
                   rust_code, exc, saved, before, lastOp>>

\* lines 274-291
write_cargo_toml ==
    /\ pc = "write_toml"
    /\ log' = log \o <<"write jay_out/Cargo.toml", "Cargo.toml written">>
    /\ pc' = "build"
    /\ UNCHANGED <<jay_code, lines, func_table, bft_i, i, func_lines, name, params,
                   ret_type, j, body, vname, vtype, right, stack, rust_fns,
                   rust_code, exc, saved, before, lastOp>>

CargoBuild_unchecked(code) ==
    /\ pc = "build"
    /\ log' = log \o <<"Compiling with cargo...", "cargo build",
                       IF code = 0 THEN "build exit 0" ELSE "build exit nonzero">>
    /\ pc' = "run"
    /\ UNCHANGED <<jay_code, lines, func_table, bft_i, i, func_lines, name, params,
                   ret_type, j, body, vname, vtype, right, stack, rust_fns,
                   rust_code, exc, saved, before, lastOp>>

\* lines 301-304: cargo build exits with code; check=True raises on nonzero
CargoBuild(code) ==
    /\ pc = "build"
    /\ log' = log \o <<"Compiling with cargo...", "cargo build",
                       IF code = 0 THEN "build exit 0" ELSE "build exit nonzero">>
    /\ pc' = IF code = 0 THEN "run" ELSE "except"
    /\ UNCHANGED <<jay_code, lines, func_table, bft_i, i, func_lines, name, params,
                   ret_type, j, body, vname, vtype, right, stack, rust_fns,
                   rust_code, exc, saved, before, lastOp>>

\* lines 305-306
CargoRun(code) ==
    /\ pc = "run"
    /\ log' = log \o <<"Running the executable:", "cargo run",
                       IF code = 0 THEN "run exit 0" ELSE "run exit nonzero">>
    /\ pc' = IF code = 0 THEN "exit" ELSE "except"
    /\ UNCHANGED <<jay_code, lines, func_table, bft_i, i, func_lines, name, params,
                   ret_type, j, body, vname, vtype, right, stack, rust_fns,
                   rust_code, exc, saved, before, lastOp>>

\* lines 308-309
ReportFailure ==
    /\ pc = "except"
    /\ log' = Append(log, "Compilation or execution failed.")
    /\ pc' = "exit"
    /\ UNCHANGED <<jay_code, lines, func_table, bft_i, i, func_lines, name, params,
                   ret_type, j, body, vname, vtype, right, stack, rust_fns,
                   rust_code, exc, saved, before, lastOp>>

Next ==
    \/ MainUsage
    \/ \E text \in Programs : ReadSource(text)
    \/ SplitLines
    \/ BuildTableHeader
    \/ BuildTableRaises
    \/ BuildTableOther
    \/ BuildTableReturn
    \/ ScanOther
    \/ FuncEnter
    \/ BodyLine
    \/ FuncReturn
    \/ ParseReturn
    \/ write_rust_file
    \/ write_cargo_toml
    \/ \E code \in ExitCodes : CargoBuild(code)
    \/ \E code \in ExitCodes : CargoRun(code)
    \/ ReportFailure

Spec == Init /\ [][Next]_vars

(***************************************************************************)
(* The ScopeStack driven through its four methods in any order.            *)
(***************************************************************************)
InitScope ==
    /\ pc = "api"
    /\ stack = ScopeStack
    /\ jay_code = <<>> /\ lines = <<>> /\ func_table = EmptyDict
    /\ bft_i = 0 /\ i = 0 /\ func_lines = <<>> /\ name = Unbound /\ params = <<>>
    /\ ret_type = Unbound /\ j = 0 /\ body = <<>> /\ vname = Unbound
    /\ vtype = Unbound /\ right = Unbound /\ rust_fns = <<>> /\ rust_code = Unbound
    /\ log = <<>> /\ exc = NoExc
    /\ saved = <<>>
    /\ before = <<>>
    /\ lastOp = <<"__init__">>

rest_of_program ==
    <<jay_code, lines, func_table, bft_i, i, func_lines, name, params, ret_type, j,
      body, vname, vtype, right, rust_fns, rust_code, log>>

\* lines 27-28
ApiEnterScope ==
    /\ pc = "api"
    /\ Len(stack) < MaxDepth
    /\ stack' = enter_scope(stack)
    /\ saved' = Append(saved, stack)
    /\ lastOp' = <<"enter_scope">>
    /\ UNCHANGED <<pc, exc, before, rest_of_program>>

\* lines 30-31
ApiExitScope ==
    /\ pc = "api"
    /\ ~exit_scope_raises(stack)
    /\ stack' = exit_scope(stack)
    /\ saved' = IF saved = <<>> THEN saved ELSE Front(saved)
    /\ before' = IF saved = <<>> THEN <<>> ELSE Last(saved)
    /\ lastOp' = <<"exit_scope", saved # <<>>, Last(stack)>>
    /\ UNCHANGED <<pc, exc, rest_of_program>>

\* line 31 on the empty list
ApiExitScopeRaises ==
    /\ pc = "api"
    /\ exit_scope_raises(stack)
    /\ exc' = "IndexError"
    /\ pc' = "raised"
    /\ lastOp' = <<"exit_scope", FALSE, EmptyDict>>
    /\ UNCHANGED <<stack, saved, before, rest_of_program>>

\* lines 33-34
ApiDeclareVar(n, t) ==
    /\ pc = "api"
    /\ ~declare_var_raises(stack)
    /\ stack' = declare_var(stack, n, t)
    /\ lastOp' = <<"declare_var", n, t>>
    /\ UNCHANGED <<pc, exc, saved, before, rest_of_program>>

\* line 34 on the empty list
ApiDeclareVarRaises(n, t) ==
    /\ pc = "api"
    /\ declare_var_raises(stack)
    /\ exc' = "IndexError"
    /\ pc' = "raised"
    /\ lastOp' = <<"declare_var", n, t>>
    /\ UNCHANGED <<stack, saved, before, rest_of_program>>

\* lines 36-40
ApiLookupVar(n) ==
    /\ pc = "api"
    /\ lastOp' = <<"lookup_var", n, lookup_var(stack, n)>>
    /\ UNCHANGED <<pc, exc, stack, saved, before, rest_of_program>>

NextScope ==
    \/ ApiEnterScope
    \/ ApiExitScope
    \/ ApiExitScopeRaises
    \/ \E n \in Names, t \in ScopeTypes : ApiDeclareVar(n, t)
    \/ \E n \in Names, t \in ScopeTypes : ApiDeclareVarRaises(n, t)
    \/ \E n \in Names : ApiLookupVar(n)

SpecScope == InitScope /\ [][NextScope]_vars

(***************************************************************************)
(* Properties.                                                             *)
(***************************************************************************)
\* the indices of the function headers of ls from k on, as the scan of
\* parse_and_compile_jay meets them
RECURSIVE function_headers(_, _)
function_headers(ls, k) ==
    IF k > Len(ls) THEN <<>>
    ELSE IF StartsWith(ls[k], <<"f","u","n","c"," ">> (* "func " *))
    THEN <<k>> \o function_headers(ls, func_end(ls, k) + 1)
    ELSE function_headers(ls, k + 1)

Headers == function_headers(lines, 1)

Identifier(s) == s # <<>> /\ \A k \in 1..Len(s) : s[k] \in WordChars

\* the body line compile_jay_func has just translated
Translated == pc = "body" /\ j > 2

translated_line == normalise(func_lines[j - 1])

\* the body line on which compile_jay_func raised
Raised == pc = "crashed" /\ j >= 2

raising_line == normalise(func_lines[j])

\* the bindings a function's parameters and the explicitly typed declarations
\* among the body lines ls give, later ones overriding earlier ones
RECURSIVE declared_by(_, _)
declared_by(d, ls) ==
    IF ls = <<>> THEN d
    ELSE LET line == normalise(Head(ls))
             typed == StartsWith(line, <<"l","e","t"," ">> (* "let " *)) /\ Contains(From(line, 5), <<":">>)
             lr == Split(Strip(Split(From(line, 5), <<"=">>)[1]), <<":">>)
         IN declared_by(IF typed
                        THEN Put(d, Strip(lr[1]), jay_type_to_rust(Strip(lr[2])))
                        ELSE d,
                        Tail(ls))

RECURSIVE params_dict(_)
params_dict(ps) ==
    IF ps = <<>> THEN EmptyDict
    ELSE Put(params_dict(Front(ps)), Last(ps)[1], Last(ps)[2])

\* the bindings visible in the function fl before its line m
visible_before(fl, m) ==
    declared_by(params_dict(func_params(fl[1])), SubSeq(fl, 2, m - 1))

\* C1 as stated: once a function body is being translated the Function Table
\* is complete, and it holds for every function header of the program an
\* entry whose return type is the one extract_func_signature gives for that
\* header.
C1_EveryHeaderHasItsReturnType ==
    /\ pc \in {"scan", "body"} => bft_i > Len(lines)
    /\ pc = "body" =>
           \A k \in 1..Len(Headers) :
               LET h == lines[Headers[k]]
               IN /\ func_name(h) \in DOMAIN func_table
                  /\ func_table[func_name(h)].ret_type = func_ret_type(h)

\* C1 amended: once a function body is being translated the Function Table
\* is complete, it holds an entry for the name of every function header of
\* the program, declared before or after the function being translated, and
\* the entry's return type is the one extract_func_signature gives for the
\* last header that declares that name.
C1_ForwardReferencesResolve ==
    /\ pc \in {"scan", "body"} => bft_i > Len(lines)
    /\ pc = "body" =>
           \A k \in 1..Len(Headers) :
               LET h == lines[Headers[k]]
                   last == \A m \in (k + 1)..Len(Headers) :
                               func_name(lines[Headers[m]]) # func_name(h)
               IN /\ func_name(h) \in DOMAIN func_table
                  /\ last => func_table[func_name(h)].ret_type = func_ret_type(h)

\* main is being translated, it has declared s from a call of g, and g is
\* declared further down with return type String
C1_Witness ==
    /\ pc = "body"
    /\ name = <<"m","a","i","n">> (* "main" *)
    /\ body # <<>>
    /\ Last(body) = <<" "," "," "," ","l","e","t"," ","s",":"," ","S","t","r","i","n","g"," ","="," ","g","(",")",";">> (* "    let s: String = g();" *)
    /\ \E k \in 1..Len(Headers) :
           /\ Headers[k] > i
           /\ func_name(lines[Headers[k]]) = <<"g">>
           /\ func_table[<<"g">>].ret_type = <<"S","t","r","i","n","g">> (* "String" *)

\* C2: a generated function has the entry-point form "fn main" exactly when
\* the source function is named main; every other function is generated as
\* "pub fn <name>" under its own name.
C2_EntryPointForm ==
    \A k \in 1..Len(rust_fns) :
        LET nm == func_name(lines[Headers[k]])
        IN /\ StartsWith(rust_fns[k], <<"f","n"," ","m","a","i","n","(">> (* "fn main(" *)) <=> nm = <<"m","a","i","n">> (* "main" *)
           /\ nm # <<"m","a","i","n">> (* "main" *) => StartsWith(rust_fns[k], <<"p","u","b"," ","f","n"," ">> (* "pub fn " *) \o nm \o <<"(">>)

\* main and main2 have both been generated
C2_Witness ==
    /\ \E k \in 1..Len(rust_fns) : StartsWith(rust_fns[k], <<"f","n"," ","m","a","i","n","(">> (* "fn main(" *))
    /\ \E k \in 1..Len(rust_fns) : StartsWith(rust_fns[k], <<"p","u","b"," ","f","n"," ","m","a","i","n","2","(">> (* "pub fn main2(" *))

print_of_name(line) ==
    /\ StartsWith(line, <<"p","r","i","n","t","(">> (* "print(" *))
    /\ Last(line) = ")"
    /\ Identifier(SubSeq(line, 7, Len(line) - 1))

untyped_decl(line) ==
    /\ StartsWith(line, <<"l","e","t"," ">> (* "let " *))
    /\ LET p == Split1(From(line, 5), <<"=">>)
       IN Len(p) = 2 /\ Identifier(Strip(p[1]))

\* C4: a declaration let <name> = <expr> is translated without failure into
\* a declaration of <name> under the return type the Function Table records
\* when <expr> is a call of a function in the table and under i32 otherwise,
\* and <name> is bound to that type in the innermost frame.
C4_UntypedDeclaration ==
    /\ ~(Raised /\ untyped_decl(raising_line))
    /\ (Translated /\ untyped_decl(translated_line)) =>
           LET p == Split1(From(translated_line, 5), <<"=">>)
               nm == Strip(p[1])
               expr == Strip(p[2])
               callee == Split(expr, <<"(">>)[1]
               t == IF CallShape(expr) /\ callee \in DOMAIN func_table
                    THEN func_table[callee].ret_type
                    ELSE <<"i","3","2">> (* "i32" *)
           IN /\ body # <<>>
              /\ Last(body) = <<" "," "," "," ","l","e","t"," ">> (* "    let " *) \o nm \o <<":"," ">> (* ": " *) \o t \o <<" ","="," ">> (* " = " *) \o expr \o <<";">>
              /\ nm \in DOMAIN Last(stack)
              /\ Last(stack)[nm] = t

recognised(raw) ==
    LET line == normalise(raw)
    IN \/ StartsWith(line, <<"l","e","t"," ">> (* "let " *))
       \/ StartsWith(line, <<"r","e","t","u","r","n"," ">> (* "return " *))
       \/ StartsWith(line, <<"p","r","i","n","t","(">> (* "print(" *))
       \/ CallShape(line)

\* the locals of compile_jay_func when its loop over the body lines starts
entry_locals ==
    [stack |-> declare_params(enter_scope(ScopeStack), params), body |-> <<>>,
     vname |-> Unbound, vtype |-> Unbound, right |-> Unbound, exc |-> NoExc]

\* C5: the statements generated for a function, the scope and the outcome
\* are those of translating its body lines with every line of no statement
\* shape left out, and translation prints nothing.
C5_UnrecognisedLineDropped ==
    /\ pc = "body" =>
           LET r == translate_lines(entry_locals,
                        SelectSeq(SubSeq(func_lines, 2, j - 1), recognised))
           IN r.exc = NoExc /\ body = r.body /\ stack = r.stack /\ log = <<>>
    /\ Raised =>
           LET r == translate_lines(entry_locals,
                        SelectSeq(SubSeq(func_lines, 2, j), recognised))
           IN r.exc = exc /\ body = r.body /\ log = <<>>

\* a function translated to its end, with a line of no statement shape among
\* its body lines and statements generated for the lines after it
C5_Witness ==
    /\ pc = "body"
    /\ j = Len(func_lines)
    /\ \E m \in 2..(j - 1) :
           /\ ~recognised(func_lines[m])
           /\ Len(body) = j - 1 - m

Count(e) == Cardinality({k \in 1..Len(log) : log[k] = e})

\* the position of the first e in log, 0 when there is none
Pos(e) ==
    IF Count(e) = 0 THEN 0 ELSE MinOf({k \in 1..Len(log) : log[k] = e})

Failures == {"build exit nonzero", "run exit nonzero"}

\* C6: cargo build runs only after translation is complete and both files
\* are written, cargo run only after cargo build exited with 0, each at most
\* once; a nonzero exit of either is followed by exactly one failure message
\* and by no further command.
C6_BuildRunProtocol ==
    /\ Count("cargo build") <= 1
    /\ Count("cargo run") <= 1
    /\ Count("Compilation or execution failed.") <= 1
    /\ Count("cargo build") = 1 =>
           /\ i > Len(lines)
           /\ rust_code = Join(rust_fns, <<"\n","\n">> (* "\n\n" *))
           /\ 0 < Pos("write jay_out/src/main.rs")
           /\ Pos("write jay_out/src/main.rs") < Pos("cargo build")
           /\ 0 < Pos("write jay_out/Cargo.toml")
           /\ Pos("write jay_out/Cargo.toml") < Pos("cargo build")
    /\ Count("cargo run") = 1 =>
           /\ 0 < Pos("build exit 0")
           /\ Pos("build exit 0") < Pos("cargo run")
    /\ \A k \in 1..Len(log) :
           log[k] \in Failures =>
               /\ k >= Len(log) - 1
               /\ k < Len(log) => log[k + 1] = "Compilation or execution failed."
    /\ \A k \in 1..Len(log) :
           log[k] = "Compilation or execution failed." =>
               k = Len(log) /\ k > 1 /\ log[k - 1] \in Failures
    /\ pc = "exit" =>
           ((\E k \in 1..Len(log) : log[k] \in Failures)
                <=> Count("Compilation or execution failed.") = 1)

\* cargo build succeeded, cargo run failed, and the failure was reported
C6_Witness ==
    /\ pc = "exit"
    /\ Count("build exit 0") = 1
    /\ Count("run exit nonzero") = 1
    /\ Last(log) = "Compilation or execution failed."

\* C7: after an exit_scope matching an enter_scope every name resolves to
\* what it resolved to before the enter_scope, and while a frame is open
\* every frame that was there when it was entered is unchanged.
C7_FrameEffect ==
    /\ (lastOp[1] = "exit_scope" /\ lastOp[2]) =>
           \A n \in Names : lookup_var(stack, n) = lookup_var(before, n)
    /\ \A k \in 1..Len(saved) :
           /\ Len(stack) > Len(saved[k])
           /\ SubSeq(stack, 1, Len(saved[k])) = saved[k]

\* the frame just exited shadowed a name bound differently outside it and
\* declared another name that is unresolvable again
C7_Witness ==
    /\ lastOp[1] = "exit_scope"
    /\ lastOp[2]
    /\ \E n \in DOMAIN lastOp[3] :
           lookup_var(stack, n) \notin {None, lastOp[3][n]}
    /\ \E n \in DOMAIN lastOp[3] : lookup_var(stack, n) = None

\* C8: the stack of a ScopeStack holds at least one frame after any sequence
\* of its operations.
C8_NeverEmpty == stack # <<>>

\* C9: between the calls of compile_jay_func the shared ScopeStack is the
\* single empty base frame; during a call it is the empty base frame and one
\* frame, which binds the parameters and typed declarations of the function
\* being translated and nothing else.
C9_NoLeakBetweenFunctions ==
    /\ pc \in {"scan", "write_rs", "write_toml", "build", "run", "except", "exit"} =>
           stack = <<EmptyDict>>
    /\ pc = "body" =>
           /\ Len(stack) = 2
           /\ stack[1] = EmptyDict
           /\ stack[2] = visible_before(func_lines, j)

\* a later function prints x, which only an earlier function declared, and
\* x does not resolve
C9_Witness ==
    /\ Translated
    /\ translated_line = <<"p","r","i","n","t","(","x",")">> (* "print(x)" *)
    /\ lookup_var(stack, <<"x">>) = None
    /\ Len(rust_fns) >= 1
    /\ Contains(rust_fns[1], <<"l","e","t"," ","x",":"," ","i","3","2">> (* "let x: i32" *))

typed_decl(line) ==
    /\ StartsWith(line, <<"l","e","t"," ">> (* "let " *))
    /\ LET p == Split1(From(line, 5), <<"=">>)
           lr == Split(Strip(p[1]), <<":">>)
       IN /\ Len(p) = 2
          /\ Len(lr) = 2
          /\ Identifier(Strip(lr[1]))
          /\ Identifier(Strip(lr[2]))

\* C10: a declaration let <name>: <type> = <expr> is split on its first "="
\* whatever <expr> holds: translation does not fail, <name> is bound to the
\* mapped type in the innermost frame and a declaration of <name> under that
\* type is generated.
C10_SplitOnFirstEquals ==
    /\ ~(Raised /\ typed_decl(raising_line))
    /\ (Translated /\ typed_decl(translated_line)) =>
           LET p == Split1(From(translated_line, 5), <<"=">>)
               lr == Split(Strip(p[1]), <<":">>)
               nm == Strip(lr[1])
               t == jay_type_to_rust(Strip(lr[2]))
           IN /\ nm \in DOMAIN Last(stack)
              /\ Last(stack)[nm] = t
              /\ body # <<>>
              /\ StartsWith(Last(body), <<" "," "," "," ","l","e","t"," ">> (* "    let " *) \o nm \o <<":"," ">> (* ": " *) \o t \o <<" ","="," ">> (* " = " *))

====
